---- MODULE Spec2Model ----
(***************************************************************************)
(* Model of fynesse/access.py: the tabular loader data() and the map       *)
(* helper plot_city_map().                                                  *)
(*                                                                          *)
(* Numbers.  The code computes in degrees with Python's true division.      *)
(* The model keeps every coordinate as an integer count of 1/DegUnits of a  *)
(* degree, DegUnits = 111 * 10 * 2, and box_size_km as a whole number of    *)
(* kilometres, so that every quotient the code forms (x / 111, x / 10,      *)
(* x / 2) is an exact integer and \div computes the same rational value.    *)
(*                                                                          *)
(* External collaborators (osmnx, matplotlib, pandas.read_csv) are calls    *)
(* that either return or raise an Exception; which one is chosen            *)
(* nondeterministically at the call.                                        *)
(***************************************************************************)
EXTENDS Integers, Sequences, FiniteSets, TLC

VARIABLES
    \* ---- plot_city_map: arguments (fixed during a call)
    coords_df,      \* None, or Some(set of <<latitude, longitude>> rows)
    latitude,       \* None or Some(number)
    longitude,      \* None or Some(number)
    box_size_km,    \* number of kilometres
    \* ---- plot_city_map: locals and observable effects
    pc,             \* the statement about to run, or "returned" / "raised"
    bbox,           \* <<>> before line 169, then <<west, south, east, north>>
    calls,          \* the external calls entered so far, in order
    drawn,          \* the layers put on the canvas so far, in order
    markerLabel,    \* label of the scatter call ("" before it)
    markerPts,      \* the points handed to ax.scatter
    xlim, ylim,     \* <<>> until ax.set_xlim / ax.set_ylim, then the pair
    shown,          \* plt.show() has completed
    warnings,       \* causes printed by the except clause of line 203-204
    exc,            \* the exception that left plot_city_map ("none" if none)
    failedAt,       \* the external call that raised ("none" if none)
    \* ---- data()
    source,         \* the file data.csv as it is now
    called,         \* data() has been called at least once
    readFrom,       \* the file as it was when data() was last called
    result,         \* what the last call returned: None or Some(frame)
    escaped,        \* an exception left the last call of data()
    records,        \* log records emitted during the last call, in order
    printed         \* lines printed during the last call, in order

mapVars  == <<coords_df, latitude, longitude, box_size_km, pc, bbox, calls, drawn,
              markerLabel, markerPts, xlim, ylim, shown, warnings, exc, failedAt>>
dataVars == <<source, called, readFrom, result, escaped, records, printed>>
vars     == <<mapVars, dataVars>>

----------------------------------------------------------------------------
\* Bounds of the model

\* coordinates are CoordStep * (i - 1) for i in 0..MaxCoord
MaxCoord == 1
\* distance between neighbouring coordinate values, in 1/DegUnits degree
CoordStep == 5
\* a coordinate table holds 1..MaxPoints distinct rows
MaxPoints == 2
\* box_size_km ranges over -1..MaxKm
MaxKm == 2
\* a readable data.csv holds 0..MaxRows data rows and 0..MaxCols columns
MaxRows == 3
MaxCols == 2

----------------------------------------------------------------------------
\* Python's optional values

None == {}
Some(v) == {v}
Get(x) == CHOOSE v \in x : TRUE

Min(S) == CHOOSE x \in S : \A y \in S : x <= y
Max(S) == CHOOSE x \in S : \A y \in S : x >= y

----------------------------------------------------------------------------
\* Program constants of plot_city_map

KmPerDegree == 111
MarginDivisor == 10
HalfDivisor == 2
\* one degree, in the model's units
DegUnits == KmPerDegree * MarginDivisor * HalfDivisor

\* box_size_km / 111, in the model's units
KmToDegrees(km) == (km * DegUnits) \div KmPerDegree

----------------------------------------------------------------------------
\* plot_city_map: the bounding box (lines 147-169)

Latitudes(df) == {row[1] : row \in df}
Longitudes(df) == {row[2] : row \in df}

\* the branch taken when coords_df is not None
ModeA_NoTenth(df, km) ==
    LET lat_margin == KmToDegrees(km)
        lon_margin == KmToDegrees(km)
    IN  [north |-> Max(Latitudes(df)) + lat_margin,
         south |-> Min(Latitudes(df)) - lat_margin,
         west  |-> Min(Longitudes(df)) - lon_margin,
         east  |-> Max(Longitudes(df)) + lon_margin]

ModeA_Inward(df, km) ==
    LET lat_margin == KmToDegrees(km)
        lon_margin == KmToDegrees(km)
    IN  [north |-> Max(Latitudes(df)) - lat_margin \div MarginDivisor,
         south |-> Min(Latitudes(df)) + lat_margin \div MarginDivisor,
         west  |-> Min(Longitudes(df)) + lon_margin \div MarginDivisor,
         east  |-> Max(Longitudes(df)) - lon_margin \div MarginDivisor]

ModeA(df, km) ==
    LET lat_min == Min(Latitudes(df))
        lat_max == Max(Latitudes(df))
        lon_min == Min(Longitudes(df))
        lon_max == Max(Longitudes(df))
        lat_margin == KmToDegrees(km)
        lon_margin == KmToDegrees(km)
    IN  [north |-> lat_max + lat_margin \div MarginDivisor,
         south |-> lat_min - lat_margin \div MarginDivisor,
         west  |-> lon_min - lon_margin \div MarginDivisor,
         east  |-> lon_max + lon_margin \div MarginDivisor]

\* the branch taken when latitude and longitude are both given
ModeB_FullWidth(lat, lon, km) ==
    LET box_width  == KmToDegrees(km)
        box_height == KmToDegrees(km)
    IN  [north |-> lat + box_height,
         south |-> lat - box_height,
         west  |-> lon - box_width,
         east  |-> lon + box_width]

ModeB(lat, lon, km) ==
    LET box_width  == KmToDegrees(km)
        box_height == KmToDegrees(km)
    IN  [north |-> lat + box_height \div HalfDivisor,
         south |-> lat - box_height \div HalfDivisor,
         west  |-> lon - box_width \div HalfDivisor,
         east  |-> lon + box_width \div HalfDivisor]

\* which branch of lines 147-167 runs
PointFirstBranch(df, lat, lon) ==
    IF lat # None /\ lon # None THEN "B"
    ELSE IF df # None THEN "A"
    ELSE "ValueError"

Branch(df, lat, lon) ==
    IF df # None THEN "A"
    ELSE IF lat # None /\ lon # None THEN "B"
    ELSE "ValueError"

\* line 169
BBoxTuple(b) == <<b.west, b.south, b.east, b.north>>

----------------------------------------------------------------------------
\* plot_city_map: the arguments a call may be given

CoordVals == {CoordStep * (i - 1) : i \in 0..MaxCoord}
Points == CoordVals \X CoordVals
\* coordinate tables with at least one row (on a table with no rows min() and
\* max() are NaN and so is the whole box; that input is left out)
Tables == {S \in SUBSET Points : Cardinality(S) >= 1 /\ Cardinality(S) <= MaxPoints}
\* box_size_km is never validated by the code: zero and negative sizes are
\* inputs like any other
KmVals == (-1)..MaxKm

RetrievalSteps == {"graph_from_bbox", "geocode_to_gdf", "graph_to_gdfs",
                   "features_from_bbox:buildings", "features_from_bbox:pois"}
PlotSteps == {"subplots", "area.plot", "buildings.plot", "edges.plot", "nodes.plot",
              "pois.plot", "scatter", "set_xlim", "set_ylim", "set_title", "legend",
              "show"}

\* the state in which no call of data() has been made
DataIdle ==
    /\ source = [exists |-> FALSE, readable |-> FALSE, rows |-> 0, cols |-> 0]
    /\ called = FALSE
    /\ readFrom = source
    /\ result = None
    /\ escaped = FALSE
    /\ records = <<>>
    /\ printed = <<>>

\* plot_city_map has been called and is about to run line 147
Init ==
    /\ coords_df \in {None} \cup {Some(t) : t \in Tables}
    /\ latitude \in {None} \cup {Some(v) : v \in CoordVals}
    /\ longitude \in {None} \cup {Some(v) : v \in CoordVals}
    /\ box_size_km \in KmVals
    /\ pc = "start"
    /\ bbox = <<>>
    /\ calls = <<>>
    /\ drawn = <<>>
    /\ markerLabel = ""
    /\ markerPts = {}
    /\ xlim = <<>>
    /\ ylim = <<>>
    /\ shown = FALSE
    /\ warnings = <<>>
    /\ exc = "none"
    /\ failedAt = "none"
    /\ DataIdle

args == <<coords_df, latitude, longitude, box_size_km>>
canvas == <<drawn, markerLabel, markerPts, xlim, ylim, shown>>

\* lines 147-169: choose the branch, compute the box or raise ValueError
ComputeBBox_Swallow ==
    /\ pc = "start"
    /\ LET br == Branch(coords_df, latitude, longitude) IN
        \/ /\ br = "A"
           /\ bbox' = BBoxTuple(ModeA(Get(coords_df), box_size_km))
           /\ pc' = "graph_from_bbox"
           /\ UNCHANGED <<exc, warnings>>
        \/ /\ br = "B"
           /\ bbox' = BBoxTuple(ModeB(Get(latitude), Get(longitude), box_size_km))
           /\ pc' = "graph_from_bbox"
           /\ UNCHANGED <<exc, warnings>>
        \/ /\ br = "ValueError"
           /\ warnings' = Append(warnings, "No coordinates available")
           /\ pc' = "returned"
           /\ UNCHANGED <<bbox, exc>>
    /\ UNCHANGED <<args, calls, canvas, failedAt, dataVars>>

ComputeBBox ==
    /\ pc = "start"
    /\ LET br == Branch(coords_df, latitude, longitude) IN
        \/ /\ br = "A"
           /\ bbox' = BBoxTuple(ModeA(Get(coords_df), box_size_km))
           /\ pc' = "graph_from_bbox"
           /\ exc' = exc
        \/ /\ br = "B"
           /\ bbox' = BBoxTuple(ModeB(Get(latitude), Get(longitude), box_size_km))
           /\ pc' = "graph_from_bbox"
           /\ exc' = exc
        \/ /\ br = "ValueError"
           /\ exc' = "ValueError"
           /\ pc' = "raised"
           /\ bbox' = bbox
    /\ UNCHANGED <<args, calls, canvas, warnings, failedAt, dataVars>>

\* lines 171-175: a call outside the try block either returns or raises, and
\* what it raises leaves plot_city_map
Retrieve_Caught(step, next) ==
    /\ pc = step
    /\ calls' = Append(calls, step)
    /\ \/ /\ pc' = next
          /\ UNCHANGED <<exc, failedAt, warnings>>
       \/ /\ failedAt' = step
          /\ warnings' = Append(warnings, step)
          /\ pc' = "returned"
          /\ exc' = exc
    /\ UNCHANGED <<args, bbox, canvas, dataVars>>

Retrieve(step, next) ==
    /\ pc = step
    /\ calls' = Append(calls, step)
    /\ \/ /\ pc' = next
          /\ UNCHANGED <<exc, failedAt>>
       \/ /\ exc' = "Exception"
          /\ failedAt' = step
          /\ pc' = "raised"
    /\ UNCHANGED <<args, bbox, canvas, warnings, dataVars>>

GraphFromBbox == Retrieve("graph_from_bbox", "geocode_to_gdf")
GeocodeToGdf == Retrieve("geocode_to_gdf", "graph_to_gdfs")
GraphToGdfs == Retrieve("graph_to_gdfs", "features_from_bbox:buildings")
BuildingsFromBbox == Retrieve("features_from_bbox:buildings", "features_from_bbox:pois")
PoisFromBbox == Retrieve("features_from_bbox:pois", "subplots")

\* lines 203-204: an Exception raised by a call inside the try block is printed
\* as a warning and plot_city_map returns
PlotFailed_Propagate(step) ==
    /\ failedAt' = step
    /\ exc' = "Exception"
    /\ pc' = "raised"
    /\ UNCHANGED <<canvas, warnings>>

PlotFailed(step) ==
    /\ failedAt' = step
    /\ warnings' = Append(warnings, step)
    /\ pc' = "returned"
    /\ UNCHANGED <<canvas, exc>>

\* a statement of the try block that draws nothing
Guarded(step, next) ==
    /\ pc = step
    /\ calls' = Append(calls, step)
    /\ \/ /\ pc' = next
          /\ UNCHANGED <<canvas, warnings, exc, failedAt>>
       \/ PlotFailed(step)
    /\ UNCHANGED <<args, bbox, dataVars>>

\* a statement of the try block that draws one layer
PlotLayer(step, layer, next) ==
    /\ pc = step
    /\ calls' = Append(calls, step)
    /\ \/ /\ drawn' = Append(drawn, layer)
          /\ pc' = next
          /\ UNCHANGED <<markerLabel, markerPts, xlim, ylim, shown, warnings, exc, failedAt>>
       \/ PlotFailed(step)
    /\ UNCHANGED <<args, bbox, dataVars>>

PlotPois_SkipsMarkers == PlotLayer("pois.plot", "pois", "set_xlim")

Subplots == Guarded("subplots", "area.plot")
PlotArea == PlotLayer("area.plot", "area", "buildings.plot")
PlotBuildings == PlotLayer("buildings.plot", "buildings", "edges.plot")
PlotEdges == PlotLayer("edges.plot", "edges", "nodes.plot")
PlotNodes == PlotLayer("nodes.plot", "nodes", "pois.plot")
PlotPois == PlotLayer("pois.plot", "pois", "scatter")

\* lines 185-195
Scatter ==
    /\ pc = "scatter"
    /\ calls' = Append(calls, "scatter")
    /\ \/ /\ IF coords_df # None
             THEN /\ markerPts' = Get(coords_df)
                  /\ markerLabel' = "Cameras"
             ELSE /\ markerPts' = {<<Get(latitude), Get(longitude)>>}
                  /\ markerLabel' = "Point"
          /\ drawn' = Append(drawn, "markers")
          /\ pc' = "set_xlim"
          /\ UNCHANGED <<xlim, ylim, shown, warnings, exc, failedAt>>
       \/ PlotFailed("scatter")
    /\ UNCHANGED <<args, bbox, dataVars>>

\* line 197
SetXlim ==
    /\ pc = "set_xlim"
    /\ calls' = Append(calls, "set_xlim")
    /\ \/ /\ xlim' = <<bbox[1], bbox[3]>>
          /\ pc' = "set_ylim"
          /\ UNCHANGED <<drawn, markerLabel, markerPts, ylim, shown, warnings, exc, failedAt>>
       \/ PlotFailed("set_xlim")
    /\ UNCHANGED <<args, bbox, dataVars>>

\* line 198
SetYlim ==
    /\ pc = "set_ylim"
    /\ calls' = Append(calls, "set_ylim")
    /\ \/ /\ ylim' = <<bbox[2], bbox[4]>>
          /\ pc' = "set_title"
          /\ UNCHANGED <<drawn, markerLabel, markerPts, xlim, shown, warnings, exc, failedAt>>
       \/ PlotFailed("set_ylim")
    /\ UNCHANGED <<args, bbox, dataVars>>

SetTitle == Guarded("set_title", "legend")
Legend == Guarded("legend", "show")

\* line 201
Show ==
    /\ pc = "show"
    /\ calls' = Append(calls, "show")
    /\ \/ /\ shown' = TRUE
          /\ pc' = "returned"
          /\ UNCHANGED <<drawn, markerLabel, markerPts, xlim, ylim, warnings, exc, failedAt>>
       \/ PlotFailed("show")
    /\ UNCHANGED <<args, bbox, dataVars>>

Next ==
    \/ ComputeBBox
    \/ GraphFromBbox \/ GeocodeToGdf \/ GraphToGdfs \/ BuildingsFromBbox \/ PoisFromBbox
    \/ Subplots \/ PlotArea \/ PlotBuildings \/ PlotEdges \/ PlotNodes \/ PlotPois
    \/ Scatter \/ SetXlim \/ SetYlim \/ SetTitle \/ Legend \/ Show

Spec == Init /\ [][Next]_vars

----------------------------------------------------------------------------
\* data(): the file data.csv and pandas.read_csv

Missing == [exists |-> FALSE, readable |-> FALSE, rows |-> 0, cols |-> 0]
Unreadable == [exists |-> TRUE, readable |-> FALSE, rows |-> 0, cols |-> 0]
\* a readable file with a header of c columns and r data rows; File(0, 0) is
\* the file of zero bytes
File(r, c) == [exists |-> TRUE, readable |-> TRUE, rows |-> r, cols |-> c]
Sources == {Missing, Unreadable, File(0, 0)}
           \cup {File(r, c) : r \in 0..MaxRows, c \in 1..MaxCols}

\* pd.read_csv("data.csv"): the exception it raises ("" if none) and the frame
\* it returns.  A file with no columns to parse raises pandas.errors.EmptyDataError.
read_csv(src) ==
    IF ~src.exists THEN [raises |-> "FileNotFoundError", rows |-> 0, cols |-> 0]
    ELSE IF ~src.readable THEN [raises |-> "PermissionError", rows |-> 0, cols |-> 0]
    ELSE IF src.cols = 0 THEN [raises |-> "EmptyDataError", rows |-> 0, cols |-> 0]
    ELSE [raises |-> "", rows |-> src.rows, cols |-> src.cols]

\* DataFrame.empty
empty(df) == df.rows = 0 \/ df.cols = 0

LogRecord(level, msg, cause, shape) ==
    [level |-> level, msg |-> msg, cause |-> cause, shape |-> shape]

\* the two records every call logs before reading (lines 103 and 108)
Preamble ==
    <<LogRecord("INFO", "Starting data access operation", "", <<>>),
      LogRecord("INFO", "Loading data from data.csv", "", <<>>)>>

\* lines 103-128: what one call of data() returns, logs and prints
DataOutcome_Reraise(src) ==
    LET r == read_csv(src) IN
    IF r.raises # ""
    THEN [result |-> None, escaped |-> TRUE, records |-> Preamble, printed |-> <<>>]
    ELSE [result |-> Some([rows |-> r.rows, cols |-> r.cols]), escaped |-> FALSE,
          records |-> Preamble, printed |-> <<>>]

DataOutcome_NoEmptyCheck(src) ==
    LET r == read_csv(src) IN
    IF r.raises # ""
    THEN [result |-> None, escaped |-> FALSE,
          records |-> Append(Preamble,
              LogRecord("ERROR", "Unexpected error loading data", r.raises, <<>>)),
          printed |-> <<"Error loading data">>]
    ELSE [result |-> Some([rows |-> r.rows, cols |-> r.cols]), escaped |-> FALSE,
          records |-> Append(Preamble,
              LogRecord("INFO", "Successfully loaded data", "", <<r.rows, r.cols>>)),
          printed |-> <<>>]

DataOutcome(src) ==
    LET r == read_csv(src)
        df == [rows |-> r.rows, cols |-> r.cols]
    IN
    IF r.raises = "FileNotFoundError"
    THEN [result |-> None, escaped |-> FALSE,
          records |-> Append(Preamble,
              LogRecord("ERROR", "Data file not found: data.csv", "", <<>>)),
          printed |-> <<"Error: Could not find data.csv file. Please check the file path.">>]
    ELSE IF r.raises # ""
    THEN [result |-> None, escaped |-> FALSE,
          records |-> Append(Preamble,
              LogRecord("ERROR", "Unexpected error loading data", r.raises, <<>>)),
          printed |-> <<"Error loading data">>]
    ELSE IF empty(df)
    THEN [result |-> None, escaped |-> FALSE,
          records |-> Append(Preamble,
              LogRecord("WARNING", "Loaded data is empty", "", <<>>)),
          printed |-> <<>>]
    ELSE [result |-> Some(df), escaped |-> FALSE,
          records |-> Append(Preamble,
              LogRecord("INFO", "Successfully loaded data", "", <<r.rows, r.cols>>)),
          printed |-> <<>>]

\* the state in which plot_city_map has not been called
MapIdle ==
    /\ coords_df = None
    /\ latitude = None
    /\ longitude = None
    /\ box_size_km = 2
    /\ pc = "not called"
    /\ bbox = <<>>
    /\ calls = <<>>
    /\ drawn = <<>>
    /\ markerLabel = ""
    /\ markerPts = {}
    /\ xlim = <<>>
    /\ ylim = <<>>
    /\ shown = FALSE
    /\ warnings = <<>>
    /\ exc = "none"
    /\ failedAt = "none"

InitData ==
    /\ source \in Sources
    /\ called = FALSE
    /\ readFrom = source
    /\ result = None
    /\ escaped = FALSE
    /\ records = <<>>
    /\ printed = <<>>
    /\ MapIdle

\* one call of data()
Data ==
    /\ LET out == DataOutcome(source) IN
        /\ result' = out.result
        /\ escaped' = out.escaped
        /\ records' = out.records
        /\ printed' = out.printed
    /\ called' = TRUE
    /\ readFrom' = source
    /\ UNCHANGED <<source, mapVars>>

\* between two calls the file may be created, removed or rewritten
ReplaceSource ==
    /\ \E s \in Sources \ {source} : source' = s
    /\ UNCHANGED <<called, readFrom, result, escaped, records, printed, mapVars>>

NextData == Data \/ ReplaceSource

SpecData == InitData /\ [][NextData]_vars

----------------------------------------------------------------------------
\* Properties of plot_city_map, checked under Spec

West == bbox[1]
South == bbox[2]
East == bbox[3]
North == bbox[4]

BoxComputed == bbox # <<>>
ModeAState == BoxComputed /\ coords_df # None
ModeBState == BoxComputed /\ coords_df = None

\* the box is proper and holds every row of the coordinate table
ProperBoxAroundTable ==
    /\ West < East
    /\ South < North
    /\ \A row \in Get(coords_df) :
         /\ West <= row[2] /\ row[2] <= East
         /\ South <= row[1] /\ row[1] <= North

\* C1 as stated: for a coordinate table with at least one row and ANY
\* box_size_km, the Mode A box has west < east and south < north and every
\* row's longitude lies in [west, east] and latitude in [south, north].
C1_AnyBoxSize == ModeAState => ProperBoxAroundTable

\* C1 as amended: for a coordinate table with at least one row and any
\* POSITIVE box_size_km, the Mode A box has west < east and south < north and
\* every row's longitude lies in [west, east] and latitude in [south, north].
C1_PositiveBoxSize == (ModeAState /\ box_size_km > 0) => ProperBoxAroundTable

C1_Witness ==
    /\ ModeAState
    /\ box_size_km > 0
    /\ Cardinality(Get(coords_df)) >= 2
    /\ Cardinality(Latitudes(Get(coords_df))) >= 2

\* C2: whenever a coordinate table is supplied, with or without a single
\* point, the box is exactly (min longitude - m, min latitude - m,
\* max longitude + m, max latitude + m) with the one margin
\* m = box_size_km / 111 / 10; the single point does not enter the box.
C2_ModeABoxExact ==
    ModeAState =>
        LET df == Get(coords_df) IN
        /\ \E row \in df : /\ \A other \in df : row[2] <= other[2]
                           /\ (row[2] - West) * KmPerDegree * MarginDivisor
                                = box_size_km * DegUnits
        /\ \E row \in df : /\ \A other \in df : row[2] >= other[2]
                           /\ (East - row[2]) * KmPerDegree * MarginDivisor
                                = box_size_km * DegUnits
        /\ \E row \in df : /\ \A other \in df : row[1] <= other[1]
                           /\ (row[1] - South) * KmPerDegree * MarginDivisor
                                = box_size_km * DegUnits
        /\ \E row \in df : /\ \A other \in df : row[1] >= other[1]
                           /\ (North - row[1]) * KmPerDegree * MarginDivisor
                                = box_size_km * DegUnits

C2_Witness ==
    /\ ModeAState
    /\ latitude # None /\ longitude # None
    /\ Get(latitude) \notin Latitudes(Get(coords_df))
    /\ Get(longitude) \notin Longitudes(Get(coords_df))
    /\ box_size_km > 0

\* C3: with no coordinate table and both latitude and longitude supplied, the
\* box is (longitude - h, latitude - h, longitude + h, latitude + h) with
\* h = (box_size_km / 111) / 2, so east - west = north - south =
\* box_size_km / 111 and the point is the midpoint of the box on both axes.
C3_ModeBBoxCentred ==
    ModeBState =>
        LET lat == Get(latitude)
            lon == Get(longitude)
        IN
        /\ (lon - West) * KmPerDegree * HalfDivisor = box_size_km * DegUnits
        /\ (East - lon) * KmPerDegree * HalfDivisor = box_size_km * DegUnits
        /\ (lat - South) * KmPerDegree * HalfDivisor = box_size_km * DegUnits
        /\ (North - lat) * KmPerDegree * HalfDivisor = box_size_km * DegUnits
        /\ (East - West) * KmPerDegree = box_size_km * DegUnits
        /\ (North - South) * KmPerDegree = box_size_km * DegUnits
        /\ West + East = 2 * lon
        /\ South + North = 2 * lat

C3_Witness ==
    /\ ModeBState
    /\ box_size_km = 2
    /\ Get(latitude) # Get(longitude)

NothingRetrievedOrDrawn ==
    /\ calls = <<>>
    /\ drawn = <<>>
    /\ markerLabel = ""
    /\ xlim = <<>> /\ ylim = <<>>
    /\ ~shown

\* C4: with no coordinate table and latitude or longitude missing,
\* plot_city_map raises ValueError to its caller before any retrieval call
\* and any plotting or display step, and prints no warning.
C4_InvalidInputRaisesFirst ==
    (coords_df = None /\ (latitude = None \/ longitude = None) /\ pc # "start") =>
        /\ pc = "raised"
        /\ exc = "ValueError"
        /\ bbox = <<>>
        /\ warnings = <<>>
        /\ NothingRetrievedOrDrawn

C4_Witness ==
    /\ pc = "raised"
    /\ exc = "ValueError"
    /\ coords_df = None
    /\ latitude # None
    /\ longitude = None

Last(seq) == seq[Len(seq)]

\* C7: if every retrieval succeeds and a step of the try block (figure
\* creation, a layer plot, the marker scatter, a limit, the title, the legend
\* or show) raises, plot_city_map prints one warning carrying that failure,
\* returns normally, raises nothing to its caller, and runs no later step.
C7_PlotFailureBecomesWarning ==
    (failedAt \in PlotSteps) =>
        /\ pc = "returned"
        /\ exc = "none"
        /\ warnings = <<failedAt>>
        /\ Last(calls) = failedAt
        /\ ~shown

C7_Witness ==
    /\ failedAt = "scatter"
    /\ pc = "returned"
    /\ Len(drawn) = 5
    /\ warnings = <<"scatter">>

\* C8: a failure of a retrieval call (road graph, place geocoding, graph to
\* layers, building footprints, points of interest) leaves plot_city_map as
\* an exception: no warning is printed, no later retrieval call is made and
\* no plotting or display step runs.
C8_RetrievalFailurePropagates ==
    (failedAt \in RetrievalSteps) =>
        /\ pc = "raised"
        /\ exc = "Exception"
        /\ warnings = <<>>
        /\ Last(calls) = failedAt
        /\ \A i \in DOMAIN calls : calls[i] \in RetrievalSteps
        /\ \A i, j \in DOMAIN calls : calls[i] = calls[j] => i = j
        /\ drawn = <<>>
        /\ markerLabel = ""
        /\ xlim = <<>> /\ ylim = <<>>
        /\ ~shown

C8_Witness ==
    /\ failedAt = "graph_to_gdfs"
    /\ pc = "raised"
    /\ Len(calls) = 3

LayerOrder == <<"area", "buildings", "edges", "nodes", "pois", "markers">>
IsPrefix(s, t) == Len(s) <= Len(t) /\ \A i \in DOMAIN s : s[i] = t[i]
InputMarkers ==
    IF coords_df # None THEN Get(coords_df)
    ELSE {<<Get(latitude), Get(longitude)>>}

\* C9: the layers go on the canvas in the order area, buildings, road edges,
\* road nodes, points of interest, input markers, each at most once; the
\* markers are the input points and come last; the limits are set only after
\* the markers, to exactly (west, east) and (south, north) of the box; and
\* the figure is shown only after all of these.
C9_LayerOrderThenLimitsThenShow ==
    /\ IsPrefix(drawn, LayerOrder)
    /\ (markerLabel # "") => (Last(drawn) = "markers" /\ markerPts = InputMarkers)
    /\ (xlim # <<>>) => (drawn = LayerOrder /\ xlim = <<West, East>>)
    /\ (ylim # <<>>) => (xlim # <<>> /\ ylim = <<South, North>>)
    /\ shown => (drawn = LayerOrder /\ xlim = <<West, East>> /\ ylim = <<South, North>>)

C9_Witness ==
    /\ shown
    /\ pc = "returned"
    /\ coords_df # None
    /\ West # South

\* the margin Mode A would add on each side for the table t, on each axis
ModeAMargins(t, km) ==
    LET b == ModeA(t, km) IN
    <<Min(Longitudes(t)) - b.west, Min(Latitudes(t)) - b.south,
      b.east - Max(Longitudes(t)), b.north - Max(Latitudes(t))>>

\* the margin the Mode B box of this state has on each side of its point
ModeBMargins ==
    <<Get(longitude) - West, Get(latitude) - South,
      East - Get(longitude), North - Get(latitude)>>

MarginRatioIs(n) ==
    \A t \in Tables : \A i \in 1..4 :
        ModeBMargins[i] = n * ModeAMargins(t, box_size_km)[i]

\* C10 as stated: for the same positive box_size_km the margin Mode B puts
\* on each side of its point is TEN times the margin Mode A puts on each side
\* of the extreme coordinates of its table.
C10_TenTimes == (ModeBState /\ box_size_km > 0) => MarginRatioIs(10)

\* C10 as amended: for the same positive box_size_km the margin Mode B puts
\* on each side of its point is FIVE times the margin Mode A puts on each
\* side of the extreme coordinates of its table ((k/111)/2 against
\* (k/111)/10).
C10_FiveTimes == (ModeBState /\ box_size_km > 0) => MarginRatioIs(5)

C10_Witness ==
    /\ ModeBState
    /\ box_size_km = 1
    /\ ModeBMargins[1] > 0

----------------------------------------------------------------------------
\* Properties of data(), checked under SpecData

Count(level) == Cardinality({i \in DOMAIN records : records[i].level = level})

\* C5: data() against a missing file returns None, logs exactly one
\* ERROR record during the call, and no exception leaves the call.
C5_MissingSourceIsAbsent ==
    (called /\ ~readFrom.exists) =>
        /\ result = None
        /\ Count("ERROR") = 1
        /\ ~escaped

C5_Witness ==
    /\ called
    /\ ~readFrom.exists
    /\ source.exists

\* C6: data() against a file that is present but empty returns None, logs a
\* WARNING record and no ERROR record; and data() never returns an empty
\* frame.  (Fails for the present file of zero bytes: read_csv raises
\* EmptyDataError, which the last except clause logs as an ERROR.)
C6_EmptySourceWarns ==
    /\ (called /\ readFrom.exists /\ readFrom.readable /\ readFrom.rows = 0) =>
          /\ result = None
          /\ Count("WARNING") >= 1
          /\ Count("ERROR") = 0
    /\ (called /\ result # None) => ~empty(Get(result))

====
